---- MODULE Spec2Model ----
(***************************************************************************)
(* Model of rayon-future (src/src/lib.rs): spawn() hands a closure to the  *)
(* rayon pool and returns a RayonFuture; the worker sends the result into  *)
(* a bounded(1) channel and then, under the state mutex, takes and wakes   *)
(* the stored waker; poll() locks the mutex, try_recv()s and stores the    *)
(* caller's waker on Empty.                                                *)
(*                                                                         *)
(* Every dispatch instance has its own channel, mutex and waker field.     *)
(* The worker and the poll are split at every point where the other side   *)
(* can interleave: send happens outside the mutex, so poll's try_recv and  *)
(* its waker store are separate steps.                                     *)
(***************************************************************************)
EXTENDS Integers, Sequences, FiniteSets, TLC

\* ---- bounds ----
MaxVal == 2        \* closure results are drawn from 1..MaxVal
NumWakers == 2     \* distinct wakers a Context can carry
MaxPolls == 2      \* polls the consumer issues without having been woken

Insts == {"a", "b"}            \* two concurrent spawn() calls
Values == 1..MaxVal
Wakers == 1..NumWakers
NoWaker == 0                   \* Option<Waker>::None
NoValue == 0

VARIABLES
    wpc,          \* worker position in the rayon::spawn closure
    wfail,        \* why the worker closure unwound ("none" if it did not)
    result,       \* `result` local of the worker (NoValue before f() returns)
    chan,         \* messages in the bounded(1) channel
    senderAlive,  \* `send` not yet dropped
    workerRef,    \* worker's Arc clone `fut_st` not yet dropped
    handleAlive,  \* the RayonFuture (its Arc) not yet dropped
    waker,        \* State.waker
    lock,         \* holder of the Mutex: "none" | "worker" | "poll"
    poisoned,     \* Mutex poison flag
    taken,        \* `waker` local bound by `if let Some(waker)` in the worker
    ppc,          \* position of the poll in progress: "idle" | "recv" | "store"
    cxWaker,      \* waker of the Context of the poll in progress
    lastPoll,     \* outcome of the most recent poll that returned or panicked
    polls,        \* polls started so far
    sched,        \* executor: the task is scheduled to be polled
    sends,        \* history: completed send() calls
    readyCount,   \* history: polls that returned Ready
    wakes,        \* history: wake() invocations
    wokenSince,   \* history: wake() invoked since the last poll returned
    registered,   \* history: some poll stored a waker
    lateFirst,    \* history: send had completed when the first poll started
    lastCx        \* history: waker supplied to the latest poll that returned Pending

vars == <<wpc, wfail, result, chan, senderAlive, workerRef, handleAlive,
          waker, lock, poisoned, taken, ppc, cxWaker, lastPoll, polls, sched,
          sends, readyCount, wakes, wokenSince, registered, lateFirst, lastCx>>

workerVars == <<wpc, wfail, result, senderAlive, workerRef, taken>>
histVars == <<sends, readyCount, wakes, wokenSince, registered, lateFirst,
              lastCx>>

PollNone == [kind |-> "None", val |-> NoValue]
PollPending == [kind |-> "Pending", val |-> NoValue]
PollReady(v) == [kind |-> "Ready", val |-> v]
PollPanic == [kind |-> "Panic", val |-> NoValue]

\* Mutant: the worker holds no reference to State (a Weak instead of the Arc
\* clone), so the Receiver dies with the handle.
RecvAlive_HandleOnly(i) == handleAlive[i]

\* The Receiver lives in State, which lives as long as one Arc does.
RecvAlive(i) == handleAlive[i] \/ workerRef[i]

\* Mutant: try_recv reports disconnection before looking for a message.
TryRecv_DisconnectFirst(i) ==
    IF ~senderAlive[i] THEN "Disconnected"
    ELSE IF Len(chan[i]) > 0 THEN "Ok"
    ELSE "Empty"

\* crossbeam Receiver::try_recv on a bounded channel: a queued message wins
\* over disconnection; an empty channel is Disconnected once the Sender is gone.
TryRecv(i) ==
    IF Len(chan[i]) > 0 THEN "Ok"
    ELSE IF senderAlive[i] THEN "Empty"
    ELSE "Disconnected"

\* Mutant: the receive peeks at the message and leaves it in the channel.
AfterRecv_Peek(i) == chan[i]

\* State of the channel after try_recv: an Ok receive drains the message.
AfterRecv(i) == IF Len(chan[i]) > 0 THEN Tail(chan[i]) ELSE chan[i]

\* spawn(): channel::bounded(1), State { recv, waker: None }, the Arc clone,
\* rayon::spawn of the runner; the handle is returned without running f.
Init ==
    /\ wpc = [i \in Insts |-> "run"]
    /\ wfail = [i \in Insts |-> "none"]
    /\ result = [i \in Insts |-> NoValue]
    /\ chan = [i \in Insts |-> <<>>]
    /\ senderAlive = [i \in Insts |-> TRUE]
    /\ workerRef = [i \in Insts |-> TRUE]
    /\ handleAlive = [i \in Insts |-> TRUE]
    /\ waker = [i \in Insts |-> NoWaker]
    /\ lock = [i \in Insts |-> "none"]
    /\ poisoned = [i \in Insts |-> FALSE]
    /\ taken = [i \in Insts |-> NoWaker]
    /\ ppc = [i \in Insts |-> "idle"]
    /\ cxWaker = [i \in Insts |-> NoWaker]
    /\ lastPoll = [i \in Insts |-> PollNone]
    /\ polls = [i \in Insts |-> 0]
    /\ sched = [i \in Insts |-> TRUE]
    /\ sends = [i \in Insts |-> 0]
    /\ readyCount = [i \in Insts |-> 0]
    /\ wakes = [i \in Insts |-> 0]
    /\ wokenSince = [i \in Insts |-> FALSE]
    /\ registered = [i \in Insts |-> FALSE]
    /\ lateFirst = [i \in Insts |-> FALSE]
    /\ lastCx = [i \in Insts |-> NoWaker]

\* ---- worker: the closure given to rayon::spawn ----

\* A panic unwinds out of the closure: its captures `send` and `fut_st` are
\* dropped, a held MutexGuard is dropped and poisons the mutex.
WorkerUnwind(i, why) ==
    /\ wpc' = [wpc EXCEPT ![i] = "panicked"]
    /\ wfail' = [wfail EXCEPT ![i] = why]
    /\ senderAlive' = [senderAlive EXCEPT ![i] = FALSE]
    /\ workerRef' = [workerRef EXCEPT ![i] = FALSE]
    /\ IF lock[i] = "worker"
       THEN /\ lock' = [lock EXCEPT ![i] = "none"]
            /\ poisoned' = [poisoned EXCEPT ![i] = TRUE]
       ELSE UNCHANGED <<lock, poisoned>>

\* Mutant: the runner goes on to the notification without sending.
WorkerRun_SkipSend(i) ==
    /\ wpc[i] = "run"
    /\ \/ \E v \in Values :
            /\ wpc' = [wpc EXCEPT ![i] = "lock"]
            /\ result' = [result EXCEPT ![i] = v]
            /\ UNCHANGED <<wfail, senderAlive, workerRef, lock, poisoned>>
       \/ /\ WorkerUnwind(i, "closure")
          /\ UNCHANGED result
    /\ UNCHANGED <<taken, chan, handleAlive, waker, ppc, cxWaker, lastPoll,
                   polls, sched, histVars>>

\* let result = f();  the closure either returns a value or panics
WorkerRun(i) ==
    /\ wpc[i] = "run"
    /\ \/ \E v \in Values :
            /\ wpc' = [wpc EXCEPT ![i] = "send"]
            /\ result' = [result EXCEPT ![i] = v]
            /\ UNCHANGED <<wfail, senderAlive, workerRef, lock, poisoned>>
       \/ /\ WorkerUnwind(i, "closure")
          /\ UNCHANGED result
    /\ UNCHANGED <<taken, chan, handleAlive, waker, ppc, cxWaker, lastPoll,
                   polls, sched, histVars>>

\* Mutant: the worker sends a default value instead of the closure's result.
WorkerSend_Stale(i) ==
    /\ wpc[i] = "send"
    /\ Len(chan[i]) < 1
    /\ chan' = [chan EXCEPT ![i] = Append(@, NoValue)]
    /\ sends' = [sends EXCEPT ![i] = @ + 1]
    /\ wpc' = [wpc EXCEPT ![i] = "lock"]
    /\ UNCHANGED <<wfail, senderAlive, workerRef, lock, poisoned, result,
                   taken, handleAlive, waker, ppc, cxWaker, lastPoll, polls,
                   sched, readyCount, wakes, wokenSince, registered,
                   lateFirst, lastCx>>

\* Mutant: the runner takes the mutex first and sends inside the critical
\* section in which it then inspects the waker.
WorkerSend_Locked(i) ==
    /\ wpc[i] = "send"
    /\ lock[i] = "none"
    /\ Len(chan[i]) < 1
    /\ chan' = [chan EXCEPT ![i] = Append(@, result[i])]
    /\ sends' = [sends EXCEPT ![i] = @ + 1]
    /\ lock' = [lock EXCEPT ![i] = "worker"]
    /\ wpc' = [wpc EXCEPT ![i] = "take"]
    /\ UNCHANGED <<wfail, senderAlive, workerRef, poisoned, result,
                   taken, handleAlive, waker, ppc, cxWaker, lastPoll, polls,
                   sched, readyCount, wakes, wokenSince, registered,
                   lateFirst, lastCx>>

\* send.send(result).unwrap();  send blocks while the channel is full and
\* fails (unwrap panics) when the Receiver is gone.
WorkerSend(i) ==
    /\ wpc[i] = "send"
    /\ IF RecvAlive(i)
       THEN /\ Len(chan[i]) < 1
            /\ chan' = [chan EXCEPT ![i] = Append(@, result[i])]
            /\ sends' = [sends EXCEPT ![i] = @ + 1]
            /\ wpc' = [wpc EXCEPT ![i] = "lock"]
            /\ UNCHANGED <<wfail, senderAlive, workerRef, lock, poisoned>>
       ELSE /\ WorkerUnwind(i, "send")
            /\ UNCHANGED <<chan, sends>>
    /\ UNCHANGED <<result, taken, handleAlive, waker, ppc, cxWaker, lastPoll,
                   polls, sched, readyCount, wakes, wokenSince, registered,
                   lateFirst, lastCx>>

\* Mutant: the runner does not wait for the mutex (a try_lock whose failure
\* is ignored).
WorkerLock_NoWait(i) ==
    /\ wpc[i] = "lock"
    /\ lock' = [lock EXCEPT ![i] = "worker"]
    /\ wpc' = [wpc EXCEPT ![i] = "take"]
    /\ UNCHANGED <<wfail, senderAlive, workerRef, poisoned, result, taken,
                   chan, handleAlive, waker, ppc, cxWaker, lastPoll, polls,
                   sched, histVars>>

\* let mut st = fut_st.lock().expect("rayon future lock");
WorkerLock(i) ==
    /\ wpc[i] = "lock"
    /\ lock[i] = "none"
    /\ IF poisoned[i]
       THEN WorkerUnwind(i, "lock")
       ELSE /\ lock' = [lock EXCEPT ![i] = "worker"]
            /\ wpc' = [wpc EXCEPT ![i] = "take"]
            /\ UNCHANGED <<wfail, senderAlive, workerRef, poisoned>>
    /\ UNCHANGED <<result, taken, chan, handleAlive, waker, ppc, cxWaker,
                   lastPoll, polls, sched, histVars>>

\* Mutant: the worker clones the stored waker instead of taking it.
WorkerTake_Peek(i) ==
    /\ wpc[i] = "take"
    /\ taken' = [taken EXCEPT ![i] = waker[i]]
    /\ wpc' = [wpc EXCEPT ![i] = IF waker[i] # NoWaker THEN "wake" ELSE "unlock"]
    /\ UNCHANGED <<wfail, result, senderAlive, workerRef, chan, handleAlive,
                   waker, lock, poisoned, ppc, cxWaker, lastPoll, polls,
                   sched, histVars>>

\* Mutant: the worker never looks at the stored waker.
WorkerTake_Skip(i) ==
    /\ wpc[i] = "take"
    /\ wpc' = [wpc EXCEPT ![i] = "unlock"]
    /\ UNCHANGED <<wfail, result, senderAlive, workerRef, taken, chan,
                   handleAlive, waker, lock, poisoned, ppc, cxWaker, lastPoll,
                   polls, sched, histVars>>

\* Mutant: the guard is released as soon as the waker has been taken.
WorkerTake_Release(i) ==
    /\ wpc[i] = "take"
    /\ taken' = [taken EXCEPT ![i] = waker[i]]
    /\ waker' = [waker EXCEPT ![i] = NoWaker]
    /\ lock' = [lock EXCEPT ![i] = "none"]
    /\ wpc' = [wpc EXCEPT ![i] = IF waker[i] # NoWaker THEN "wake" ELSE "unlock"]
    /\ UNCHANGED <<wfail, result, senderAlive, workerRef, chan, handleAlive,
                   poisoned, ppc, cxWaker, lastPoll, polls, sched, histVars>>

\* if let Some(waker) = st.waker.take()
WorkerTake(i) ==
    /\ wpc[i] = "take"
    /\ taken' = [taken EXCEPT ![i] = waker[i]]
    /\ waker' = [waker EXCEPT ![i] = NoWaker]
    /\ wpc' = [wpc EXCEPT ![i] = IF waker[i] # NoWaker THEN "wake" ELSE "unlock"]
    /\ UNCHANGED <<wfail, result, senderAlive, workerRef, chan, handleAlive,
                   lock, poisoned, ppc, cxWaker, lastPoll, polls, sched,
                   histVars>>

\* Mutant: the taken waker is dropped without being invoked.
WorkerWake_Dropped(i) ==
    /\ wpc[i] = "wake"
    /\ wpc' = [wpc EXCEPT ![i] = "unlock"]
    /\ UNCHANGED <<wfail, result, senderAlive, workerRef, taken, chan,
                   handleAlive, waker, lock, poisoned, ppc, cxWaker, lastPoll,
                   polls, sched, histVars>>

\* waker.wake();  the guard `st` is still in scope.  The executor schedules
\* the task for another poll.
WorkerWake(i) ==
    /\ wpc[i] = "wake"
    /\ wakes' = [wakes EXCEPT ![i] = @ + 1]
    /\ wokenSince' = [wokenSince EXCEPT ![i] = TRUE]
    /\ sched' = [sched EXCEPT ![i] = TRUE]
    /\ wpc' = [wpc EXCEPT ![i] = "unlock"]
    /\ UNCHANGED <<wfail, result, senderAlive, workerRef, taken, chan,
                   handleAlive, waker, lock, poisoned, ppc, cxWaker, lastPoll,
                   polls, sends, readyCount, registered, lateFirst, lastCx>>

\* waker.wake() panics: the runner unwinds with the guard `st` held, which
\* poisons the mutex; the task is not scheduled.
WorkerWakePanic(i) ==
    /\ wpc[i] = "wake"
    /\ wakes' = [wakes EXCEPT ![i] = @ + 1]
    /\ wokenSince' = [wokenSince EXCEPT ![i] = TRUE]
    /\ WorkerUnwind(i, "wake")
    /\ UNCHANGED <<result, taken, chan, handleAlive, waker, ppc, cxWaker,
                   lastPoll, polls, sched, sends, readyCount, registered,
                   lateFirst, lastCx>>

\* end of the closure body: the local `st` (the MutexGuard) is dropped first
WorkerUnlock(i) ==
    /\ wpc[i] = "unlock"
    /\ lock' = [lock EXCEPT ![i] = "none"]
    /\ wpc' = [wpc EXCEPT ![i] = "drop"]
    /\ UNCHANGED <<wfail, result, senderAlive, workerRef, taken, chan,
                   handleAlive, waker, poisoned, ppc, cxWaker, lastPoll,
                   polls, sched, histVars>>

\* ... then the closure's captures `send` and `fut_st`
WorkerDrop(i) ==
    /\ wpc[i] = "drop"
    /\ senderAlive' = [senderAlive EXCEPT ![i] = FALSE]
    /\ workerRef' = [workerRef EXCEPT ![i] = FALSE]
    /\ wpc' = [wpc EXCEPT ![i] = "done"]
    /\ UNCHANGED <<wfail, result, taken, chan, handleAlive, waker, lock,
                   poisoned, ppc, cxWaker, lastPoll, polls, sched, histVars>>

WorkerStep(i) ==
    \/ WorkerRun(i)
    \/ WorkerSend(i)
    \/ WorkerLock(i)
    \/ WorkerTake(i)
    \/ WorkerWake(i)
    \/ WorkerUnlock(i)
    \/ WorkerDrop(i)

\* ---- consumer: RayonFuture::poll and drop of the handle ----

\* A poll that returns or panics releases the guard and ends the call.
PollReturn(i, r) ==
    /\ lastPoll' = [lastPoll EXCEPT ![i] = r]
    /\ lock' = [lock EXCEPT ![i] = "none"]
    /\ ppc' = [ppc EXCEPT ![i] = "idle"]
    /\ cxWaker' = [cxWaker EXCEPT ![i] = NoWaker]
    /\ wokenSince' = [wokenSince EXCEPT ![i] = FALSE]

\* Mutant: poll recovers the guard from a poisoned mutex and carries on.
PollLock_IgnorePoison(i, w) ==
    /\ handleAlive[i]
    /\ ppc[i] = "idle"
    /\ lock[i] = "none"
    /\ sched[i] \/ polls[i] < MaxPolls
    /\ polls' = [polls EXCEPT ![i] = @ + 1]
    /\ sched' = [sched EXCEPT ![i] = FALSE]
    /\ lateFirst' = [lateFirst EXCEPT ![i] = IF polls[i] = 0 THEN sends[i] > 0 ELSE @]
    /\ lock' = [lock EXCEPT ![i] = "poll"]
    /\ ppc' = [ppc EXCEPT ![i] = "recv"]
    /\ cxWaker' = [cxWaker EXCEPT ![i] = w]
    /\ UNCHANGED <<lastPoll, wokenSince>>
    /\ UNCHANGED <<workerVars, chan, handleAlive, waker, poisoned, sends,
                   readyCount, wakes, registered, lastCx>>

\* Mutant: one process-wide mutex guards every instance's State.
PollLock_GlobalLock(i, w) ==
    /\ handleAlive[i]
    /\ ppc[i] = "idle"
    /\ \A j \in Insts : lock[j] = "none"
    /\ sched[i] \/ polls[i] < MaxPolls
    /\ polls' = [polls EXCEPT ![i] = @ + 1]
    /\ sched' = [sched EXCEPT ![i] = FALSE]
    /\ lateFirst' = [lateFirst EXCEPT ![i] = IF polls[i] = 0 THEN sends[i] > 0 ELSE @]
    /\ IF poisoned[i]
       THEN /\ PollReturn(i, PollPanic)
       ELSE /\ lock' = [lock EXCEPT ![i] = "poll"]
            /\ ppc' = [ppc EXCEPT ![i] = "recv"]
            /\ cxWaker' = [cxWaker EXCEPT ![i] = w]
            /\ UNCHANGED <<lastPoll, wokenSince>>
    /\ UNCHANGED <<workerVars, chan, handleAlive, waker, poisoned, sends,
                   readyCount, wakes, registered, lastCx>>

\* let mut st = self.state.lock().expect("rayon future lock");
\* The executor polls a scheduled task; the consumer may also poll without
\* having been woken, at most MaxPolls times.
PollLock(i, w) ==
    /\ handleAlive[i]
    /\ ppc[i] = "idle"
    /\ lock[i] = "none"
    /\ sched[i] \/ polls[i] < MaxPolls
    /\ polls' = [polls EXCEPT ![i] = @ + 1]
    /\ sched' = [sched EXCEPT ![i] = FALSE]
    /\ lateFirst' = [lateFirst EXCEPT ![i] = IF polls[i] = 0 THEN sends[i] > 0 ELSE @]
    /\ IF poisoned[i]
       THEN /\ PollReturn(i, PollPanic)
       ELSE /\ lock' = [lock EXCEPT ![i] = "poll"]
            /\ ppc' = [ppc EXCEPT ![i] = "recv"]
            /\ cxWaker' = [cxWaker EXCEPT ![i] = w]
            /\ UNCHANGED <<lastPoll, wokenSince>>
    /\ UNCHANGED <<workerVars, chan, handleAlive, waker, poisoned, sends,
                   readyCount, wakes, registered, lastCx>>

\* Mutant: a poll that returns Ready clears the stored waker.
PollTryRecv_ClearOnReady(i) ==
    /\ ppc[i] = "recv"
    /\ chan' = [chan EXCEPT ![i] = AfterRecv(i)]
    /\ CASE TryRecv(i) = "Ok" ->
              /\ PollReturn(i, PollReady(Head(chan[i])))
              /\ readyCount' = [readyCount EXCEPT ![i] = @ + 1]
              /\ waker' = [waker EXCEPT ![i] = NoWaker]
              /\ UNCHANGED poisoned
         [] TryRecv(i) = "Empty" ->
              /\ ppc' = [ppc EXCEPT ![i] = "store"]
              /\ UNCHANGED <<lastPoll, lock, cxWaker, wokenSince, readyCount,
                             poisoned, waker>>
         [] TryRecv(i) = "Disconnected" ->
              /\ PollReturn(i, PollPanic)
              /\ poisoned' = [poisoned EXCEPT ![i] = TRUE]
              /\ UNCHANGED <<readyCount, waker>>
    /\ UNCHANGED <<workerVars, handleAlive, polls, sched, sends, wakes,
                   registered, lateFirst, lastCx>>

\* match st.recv.try_recv(): Ok(r) => Poll::Ready(r); Empty falls through to
\* the waker store; Disconnected => panic!, which unwinds with the guard held.
PollTryRecv(i) ==
    /\ ppc[i] = "recv"
    /\ chan' = [chan EXCEPT ![i] = AfterRecv(i)]
    /\ CASE TryRecv(i) = "Ok" ->
              /\ PollReturn(i, PollReady(Head(chan[i])))
              /\ readyCount' = [readyCount EXCEPT ![i] = @ + 1]
              /\ UNCHANGED poisoned
         [] TryRecv(i) = "Empty" ->
              /\ ppc' = [ppc EXCEPT ![i] = "store"]
              /\ UNCHANGED <<lastPoll, lock, cxWaker, wokenSince, readyCount,
                             poisoned>>
         [] TryRecv(i) = "Disconnected" ->
              /\ PollReturn(i, PollPanic)
              /\ poisoned' = [poisoned EXCEPT ![i] = TRUE]
              /\ UNCHANGED readyCount
    /\ UNCHANGED <<workerVars, handleAlive, waker, polls, sched, sends, wakes,
                   registered, lateFirst, lastCx>>

\* Mutant: poll keeps an already stored waker and registers only the first.
PollStore_KeepFirst(i) ==
    /\ ppc[i] = "store"
    /\ waker' = [waker EXCEPT ![i] = IF @ = NoWaker THEN cxWaker[i] ELSE @]
    /\ registered' = [registered EXCEPT ![i] = TRUE]
    /\ lastCx' = [lastCx EXCEPT ![i] = cxWaker[i]]
    /\ PollReturn(i, PollPending)
    /\ UNCHANGED <<workerVars, chan, handleAlive, poisoned, polls, sched,
                   sends, readyCount, wakes, lateFirst>>

\* Mutant: poll returns Pending without storing the waker.
PollStore_Forget(i) ==
    /\ ppc[i] = "store"
    /\ lastCx' = [lastCx EXCEPT ![i] = cxWaker[i]]
    /\ PollReturn(i, PollPending)
    /\ UNCHANGED <<workerVars, chan, handleAlive, waker, poisoned, polls,
                   sched, sends, readyCount, wakes, registered, lateFirst>>

\* st.waker = Some(cx.waker().clone()); Poll::Pending
PollStore(i) ==
    /\ ppc[i] = "store"
    /\ waker' = [waker EXCEPT ![i] = cxWaker[i]]
    /\ registered' = [registered EXCEPT ![i] = TRUE]
    /\ lastCx' = [lastCx EXCEPT ![i] = cxWaker[i]]
    /\ PollReturn(i, PollPending)
    /\ UNCHANGED <<workerVars, chan, handleAlive, poisoned, polls, sched,
                   sends, readyCount, wakes, lateFirst>>

\* The consumer drops the RayonFuture between polls.
DropHandle(i) ==
    /\ handleAlive[i]
    /\ ppc[i] = "idle"
    /\ handleAlive' = [handleAlive EXCEPT ![i] = FALSE]
    /\ UNCHANGED <<workerVars, chan, waker, lock, poisoned, ppc, cxWaker,
                   lastPoll, polls, sched, histVars>>

PollStep(i) ==
    \/ \E w \in Wakers : PollLock(i, w)
    \/ PollTryRecv(i)
    \/ PollStore(i)

Next ==
    \E i \in Insts :
        \/ WorkerStep(i)
        \/ PollStep(i)
        \/ DropHandle(i)

Spec == Init /\ [][Next]_vars

\* ---- wakers that can fail ----

\* The same program with an executor whose wake() may panic.
PoisonNext ==
    \/ Next
    \/ \E i \in Insts : WorkerWakePanic(i)

PoisonSpec == Init /\ [][PoisonNext]_vars

\* ---- an executor that awaits the handle to completion ----

\* One-shot discipline: the task is not polled again once a poll has
\* returned Ready or panicked, and the handle is not dropped before that.
Awaiting(i) == lastPoll[i].kind \in {"None", "Pending"}

AwaitStep(i) ==
    \/ \E w \in Wakers : Awaiting(i) /\ PollLock(i, w)
    \/ PollTryRecv(i)
    \/ PollStore(i)

\* The poll the executor owes the task: it is scheduled and not complete.
ExecPoll(i) == \E w \in Wakers : sched[i] /\ Awaiting(i) /\ PollLock(i, w)

LiveNext ==
    \E i \in Insts :
        \/ WorkerStep(i)
        \/ AwaitStep(i)

\* The pool runs every submitted closure to completion; the executor polls a
\* scheduled task, and a poll in progress runs to its return.
LiveSpec ==
    /\ Init
    /\ [][LiveNext]_vars
    /\ \A i \in Insts : WF_vars(WorkerStep(i))
    /\ \A i \in Insts : WF_vars(ExecPoll(i))
    /\ \A i \in Insts : WF_vars(PollTryRecv(i) \/ PollStore(i))

\* ---- properties ----

\* The worker is past its notification step (take, and wake if a waker was
\* stored).
Notified(i) == wpc[i] \in {"unlock", "drop", "done"}

\* C1: no lost wakeup: there is no state in which the most recent poll
\* returned Pending, the value is in the channel, the worker has finished its
\* notification step and no wake() has been invoked since that poll.
C1_NoLostWakeup ==
    \A i \in Insts :
        ~ /\ lastPoll[i].kind = "Pending"
          /\ Len(chan[i]) = 1
          /\ Notified(i)
          /\ ~wokenSince[i]

\* C1 witness: the consumer polled Pending, the worker sent, took the waker
\* and woke it, and the value still waits in the channel.
C1_Witness ==
    \E i \in Insts :
        /\ lastPoll[i].kind = "Pending"
        /\ Len(chan[i]) = 1
        /\ Notified(i)
        /\ wokenSince[i]

\* C2: completion: once the closure has returned v, an executor that polls
\* when scheduled (initially and after every wake) eventually sees a poll
\* return Ready(v), under fair scheduling of the worker.
C2_Completion ==
    \A i \in Insts : \A v \in Values :
        (wpc[i] = "send" /\ result[i] = v) ~> (lastPoll[i] = PollReady(v))

\* C2 witness: a handle completed through the wake path: a poll returned
\* Pending first, the worker woke the task, and the re-poll returned Ready.
C2_Witness ==
    \E i \in Insts :
        /\ lastPoll[i] = PollReady(result[i])
        /\ registered[i]
        /\ wakes[i] = 1

\* C3: late poll: when the send completed before the first poll, that poll
\* returns Ready(result), and up to its return no waker is ever stored.
C3_LatePoll ==
    \A i \in Insts :
        (lateFirst[i] /\ polls[i] = 1) =>
            /\ waker[i] = NoWaker
            /\ ~registered[i]
            /\ ppc[i] # "store"
            /\ ppc[i] = "idle" => lastPoll[i] = PollReady(result[i])

\* C3 witness: a first poll that started after the send has returned, with
\* the worker already gone.
C3_Witness ==
    \E i \in Insts :
        /\ lateFirst[i]
        /\ polls[i] = 1
        /\ ppc[i] = "idle"
        /\ wpc[i] = "done"
        /\ lastPoll[i].kind = "Ready"

\* C4: single shot: at most one send into the channel and at most one poll
\* that returns Ready, whatever polls follow.
C4_SingleShot ==
    \A i \in Insts : sends[i] <= 1 /\ readyCount[i] <= 1

\* C4 witness: a poll was issued after a Ready had been returned, and it did
\* not return Ready again.
C4_Witness ==
    \E i \in Insts :
        /\ readyCount[i] = 1
        /\ polls[i] >= 2
        /\ ppc[i] = "idle"
        /\ lastPoll[i].kind # "Ready"

\* C5: value integrity: a poll that returned Ready(x) returned the value the
\* closure produced, and the closure had returned and the send completed.
C5_ValueIntegrity ==
    \A i \in Insts :
        lastPoll[i].kind = "Ready" =>
            /\ lastPoll[i].val = result[i]
            /\ result[i] \in Values
            /\ sends[i] = 1
            /\ wpc[i] \notin {"run", "send"}

\* C5 witness: both handles are Ready with different values.
C5_Witness ==
    /\ \A i \in Insts : lastPoll[i].kind = "Ready"
    /\ \E i, j \in Insts : lastPoll[i].val # lastPoll[j].val

\* C6: worker failure is delivered: once the closure has panicked, no poll
\* crashes and the awaiting consumer eventually obtains an explicit failure
\* result.
C6_FailureDelivered ==
    \A i \in Insts :
        /\ [](wfail[i] = "closure" => lastPoll[i].kind # "Panic")
        /\ (wfail[i] = "closure") ~> (lastPoll[i].kind = "Failure")

\* C7: drop does not cancel: after the handle is dropped the worker is never
\* blocked, its send succeeds (the runner unwinds only if the closure itself
\* panicked), and it can always take its next step until it is done.
C7_DropDoesNotCancel ==
    \A i \in Insts :
        ~handleAlive[i] =>
            /\ wfail[i] \in {"none", "closure"}
            /\ wpc[i] \notin {"run", "send", "panicked"} => sends[i] = 1
            /\ wpc[i] \notin {"done", "panicked"} => ENABLED WorkerStep(i)

\* C7 witness: the handle was dropped after a poll registered a waker and
\* before any Ready, and the runner has terminated normally after its send.
C7_Witness ==
    \E i \in Insts :
        /\ ~handleAlive[i]
        /\ lastPoll[i].kind = "Pending"
        /\ readyCount[i] = 0
        /\ wpc[i] = "done"
        /\ sends[i] = 1
        /\ wakes[i] = 1

\* Everything that belongs to one dispatch instance.
Local(i) ==
    <<wpc[i], wfail[i], result[i], chan[i], senderAlive[i], workerRef[i],
      handleAlive[i], waker[i], lock[i], poisoned[i], taken[i], ppc[i],
      cxWaker[i], lastPoll[i], polls[i], sched[i], sends[i], readyCount[i],
      wakes[i], wokenSince[i], registered[i], lateFirst[i], lastCx[i]>>

\* What an instance can do next.
Offers(i) ==
    <<ENABLED WorkerStep(i), ENABLED PollStep(i), ENABLED DropHandle(i)>>

\* C8: independence of dispatches: a step of one instance leaves every field
\* of the other instance unchanged and neither enables nor disables any of
\* the other's operations, and a Ready result is the instance's own value.
C8_Independence ==
    [][\A i, j \in Insts :
          (i # j /\ Local(j)' # Local(j)) =>
              /\ Local(i)' = Local(i)
              /\ Offers(i)' = Offers(i)
              /\ lastPoll[j]'.kind = "Ready" => lastPoll[j]'.val = result[j]']_vars

\* C8 witness: one instance failed (closure panicked, its poll crashed) while
\* the other completed with Ready.
C8_Witness ==
    \E i, j \in Insts :
        /\ wfail[i] = "closure"
        /\ lastPoll[i].kind = "Panic"
        /\ poisoned[i]
        /\ lastPoll[j] = PollReady(result[j])
        /\ ~poisoned[j]

\* C9: initial Pending: the handle starts with an empty channel and no waker
\* and the closure has not run; while the worker has not sent, it does not
\* hold the lock, a try_recv finds the channel Empty, and the poll returns
\* Pending having stored its caller's waker.
C9_InitialPending ==
    [][\A i \in Insts :
          /\ polls[i] = 0 => waker[i] = NoWaker
          /\ wpc[i] = "run" => result[i] = NoValue
          /\ wpc[i] \in {"run", "send"} =>
                /\ chan[i] = <<>>
                /\ sends[i] = 0
                /\ lock[i] # "worker"
                /\ (ppc[i] = "recv" /\ ppc[i]' # "recv") => ppc[i]' = "store"
          /\ (ppc[i] = "store" /\ ppc[i]' # "store") =>
                /\ lastPoll[i]' = PollPending
                /\ cxWaker[i] \in Wakers
                /\ waker[i]' = cxWaker[i]]_vars

\* C9 witness: two polls have returned Pending before the worker started,
\* and the waker of the second is stored.
C9_Witness ==
    \E i \in Insts :
        /\ wpc[i] = "run"
        /\ polls[i] = 2
        /\ ppc[i] = "idle"
        /\ lastPoll[i] = PollPending
        /\ waker[i] \in Wakers

\* C10 as stated: while the worker invokes wake() the lock is free, so a
\* poll can acquire it.
C10_WakeOutsideLock ==
    \A i \in Insts : wpc[i] = "wake" => lock[i] = "none"

\* C10 amended: from the take of the waker through the wake() call to the
\* end of the closure body the worker holds the lock; no poll is inside its
\* critical section and none can acquire the lock.
C10_WakeUnderLock ==
    \A i \in Insts :
        wpc[i] \in {"take", "wake", "unlock"} =>
            /\ lock[i] = "worker"
            /\ ppc[i] = "idle"
            /\ ~ENABLED (\E w \in Wakers : PollLock(i, w))

\* C10 witness: the worker is about to call wake() on a taken waker with the
\* lock held, while the consumer still has the handle and polls to spend.
C10_Witness ==
    \E i \in Insts :
        /\ wpc[i] = "wake"
        /\ taken[i] \in Wakers
        /\ lock[i] = "worker"
        /\ handleAlive[i]
        /\ polls[i] < MaxPolls

\* The step is the worker's send, its waker inspection, or a poll's try_recv.
SendStep(i) == sends[i]' # sends[i]
TakeStep(i) == wpc[i] = "take" /\ wpc[i]' # "take"
RecvStep(i) == ppc[i] = "recv" /\ ppc[i]' # "recv"
StoreStep(i) == ppc[i] = "store" /\ ppc[i]' # "store"

\* C11 as stated: the send and the waker inspection are inside one critical
\* section: from the send to the inspection the worker holds the lock, so no
\* poll critical section runs in between.
C11_SendUnderLock ==
    \A i \in Insts :
        (sends[i] = 1 /\ wpc[i] \in {"lock", "take"}) =>
            /\ lock[i] = "worker"
            /\ ppc[i] = "idle"

\* C11 amended: the send is made before the worker acquires the lock and
\* only the waker inspection is inside its critical section: the worker does
\* not hold the lock when the send completes, it holds it with no poll in
\* progress and the send done when it inspects the waker, and a poll that
\* try_recv()s between the two finds the value unless it was already taken.
C11_SendThenLock ==
    [][\A i \in Insts :
          /\ SendStep(i) => (lock[i] # "worker" /\ lock[i]' # "worker")
          /\ TakeStep(i) => (lock[i] = "worker" /\ ppc[i] = "idle" /\ sends[i] = 1)
          /\ (RecvStep(i) /\ wpc[i] = "lock" /\ readyCount[i] = 0) =>
                lastPoll[i]' = PollReady(result[i])]_vars

\* C11 witness: a poll is inside its critical section after the worker's
\* send and before the worker's waker inspection.
C11_Witness ==
    \E i \in Insts :
        /\ sends[i] = 1
        /\ wpc[i] = "lock"
        /\ lock[i] = "poll"
        /\ ppc[i] = "recv"

\* C12: ordering inside the worker: the waker is inspected, taken and invoked
\* only after the send, and the task is scheduled again only by the worker's
\* wake() after the closure has finished.
C12_SendBeforeTake ==
    [][\A i \in Insts :
          /\ wpc[i] \in {"lock", "take", "wake", "unlock", "drop", "done"} =>
                (sends[i] = 1 /\ result[i] \in Values)
          /\ wakes[i] > 0 => sends[i] = 1
          /\ (~sched[i] /\ sched[i]') =>
                (wpc[i] = "wake" /\ sends[i] = 1 /\ wakes[i]' = wakes[i] + 1)]_vars

\* C12 witness: a registered waker has been invoked after the send and the
\* task is scheduled for its re-poll.
C12_Witness ==
    \E i \in Insts :
        /\ sends[i] = 1
        /\ wakes[i] = 1
        /\ sched[i]
        /\ lastPoll[i].kind = "Pending"

\* C13: the waker field holds at most one waker, and a stored one is the
\* waker supplied to the most recent poll that returned Pending: a later
\* Pending poll overwrites it, and the worker takes exactly that one.
C13_LatestWaker ==
    [][\A i \in Insts :
          /\ waker[i] \in Wakers \cup {NoWaker}
          /\ waker[i] # NoWaker => waker[i] = lastCx[i]
          /\ StoreStep(i) => waker[i]' = cxWaker[i]
          /\ (TakeStep(i) /\ waker[i] # NoWaker) =>
                (taken[i]' = lastCx[i] /\ waker[i]' = NoWaker)]_vars

\* C13 witness: two polls returned Pending and the worker has taken the
\* waker of the second.
C13_Witness ==
    \E i \in Insts :
        /\ polls[i] = 2
        /\ wpc[i] = "wake"
        /\ taken[i] = lastCx[i]
        /\ taken[i] = 2
        /\ waker[i] = NoWaker

\* C14: lock discipline: a poll between its try_recv and its waker store
\* holds the lock, the worker from its waker take to the end of the wake
\* holds the lock, and the two critical sections are never active together.
C14_LockDiscipline ==
    \A i \in Insts :
        /\ ppc[i] \in {"recv", "store"} <=> lock[i] = "poll"
        /\ wpc[i] \in {"take", "wake", "unlock"} <=> lock[i] = "worker"
        /\ ~(ppc[i] \in {"recv", "store"} /\ wpc[i] \in {"take", "wake", "unlock"})

\* C14 witness: the worker waits for the lock while a poll that found the
\* channel Empty is about to store its waker.
C14_Witness ==
    \E i \in Insts :
        /\ wpc[i] = "lock"
        /\ ppc[i] = "store"
        /\ lock[i] = "poll"

\* C15 as stated: after a poll has returned Ready, every later poll observes
\* Closed and fails; none finds Empty, returns Pending or stores a waker.
C15_PollAfterReadyFails ==
    \A i \in Insts :
        readyCount[i] >= 1 =>
            /\ ppc[i] # "store"
            /\ lastPoll[i].kind # "Pending"

\* C15 amended: a poll after Ready never returns Ready again; its try_recv
\* is Empty while the runner still owns the Sender (the poll stores its waker
\* and returns Pending) and Disconnected once the runner has dropped it (the
\* poll panics and poisons the lock).
C15_PollAfterReady ==
    [][\A i \in Insts :
          (RecvStep(i) /\ readyCount[i] >= 1) =>
              IF senderAlive[i]
              THEN ppc[i]' = "store"
              ELSE /\ lastPoll[i]' = PollPanic
                   /\ poisoned[i]'
                   /\ waker[i]' = waker[i]]_vars

\* C15 witness: a poll after Ready has observed the closed channel and
\* panicked.
C15_Witness ==
    \E i \in Insts :
        /\ readyCount[i] = 1
        /\ wpc[i] = "done"
        /\ lastPoll[i] = PollPanic
        /\ poisoned[i]

\* C16: a poll that observes the channel Closed with no value ever sent
\* returns an explicit error outcome: it neither returns Pending nor panics.
C16_ClosedIsError ==
    [][\A i \in Insts :
          (RecvStep(i) /\ TryRecv(i) = "Disconnected" /\ sends[i] = 0) =>
              lastPoll[i]'.kind = "Failure"]_vars

\* C17: lock poisoning is fatal for the instance: once the mutex is poisoned
\* (wake() panicked inside the worker's critical section, or poll panicked on
\* Closed) it stays poisoned, every later poll panics at the lock without
\* returning Ready or Pending or storing a waker, a worker that locks it
\* unwinds, and the step that poisons one instance changes nothing of the
\* other.
C17_PoisonIsFatal ==
    [][\A i \in Insts :
          /\ poisoned[i] =>
                /\ poisoned[i]'
                /\ ppc[i] = "idle" /\ ppc[i]' = "idle"
                /\ polls[i]' # polls[i] => lastPoll[i]' = PollPanic
                /\ lastPoll[i]' # lastPoll[i] => lastPoll[i]' = PollPanic
                /\ readyCount[i]' = readyCount[i]
                /\ waker[i]' = waker[i]
                /\ (wpc[i] = "lock" /\ wpc[i]' # "lock") => wfail[i]' = "lock"
          /\ (~poisoned[i] /\ poisoned[i]') =>
                \A j \in Insts \ {i} : Local(j)' = Local(j)]_vars

\* C17 witness: wake() panicked under the lock with the value in the
\* channel, a later poll of that instance panicked at the lock, and the other
\* instance completed with Ready on an unpoisoned mutex.
C17_Witness ==
    \E i, j \in Insts :
        /\ wfail[i] = "wake"
        /\ poisoned[i]
        /\ Len(chan[i]) = 1
        /\ lastPoll[i] = PollPanic
        /\ lastPoll[j] = PollReady(result[j])
        /\ ~poisoned[j]

\* C18: at most one wake per dispatch: wake() is invoked at most once, only
\* on a waker the worker took, and the worker goes on to invoke one exactly
\* when a waker is stored at the moment it inspects the shared state.
C18_AtMostOneWake ==
    [][\A i \in Insts :
          /\ wakes[i] <= 1 /\ wakes[i]' <= 1
          /\ TakeStep(i) => (wpc[i]' = "wake" <=> waker[i] # NoWaker)
          /\ wakes[i]' # wakes[i] => (wpc[i] = "wake" /\ taken[i] \in Wakers)
          /\ Notified(i) => (wakes[i] = 1 <=> taken[i] # NoWaker)]_vars

\* C18 witness: one runner found a waker and invoked it once although its
\* handle was polled several times; another found none, and the waker stored
\* after its inspection is never invoked.
C18_Witness ==
    \E i, j \in Insts :
        /\ wpc[i] = "done" /\ wakes[i] = 1 /\ polls[i] >= 2
        /\ wpc[j] = "done" /\ wakes[j] = 0 /\ waker[j] # NoWaker

\* C19: no stale registration: with a consumer that never polls after Ready,
\* once the worker has finished its notification step no waker is stored and
\* no poll is about to store one; a waker that was registered has been taken
\* and invoked by the worker.
C19_NoStaleWaker ==
    \A i \in Insts :
        Notified(i) =>
            /\ waker[i] = NoWaker
            /\ ppc[i] # "store"
            /\ registered[i] => (taken[i] = lastCx[i] /\ wakes[i] = 1)

\* C19 witness: a waker was registered, the worker took and invoked it, and
\* the re-poll returned Ready with the waker field empty.
C19_Witness ==
    \E i \in Insts :
        /\ wpc[i] = "done"
        /\ registered[i]
        /\ waker[i] = NoWaker
        /\ polls[i] >= 2
        /\ lastPoll[i] = PollReady(result[i])

\* C20: a poll that returns Ready leaves the stored waker as it is; a waker
\* registered before the worker's inspection is therefore still taken and
\* invoked by the worker, also when a poll has already returned Ready.
C20_ReadyKeepsWaker ==
    [][\A i \in Insts :
          /\ readyCount[i]' # readyCount[i] =>
                (waker[i]' = waker[i] /\ lastPoll[i]' = PollReady(result[i]))
          /\ (TakeStep(i) /\ registered[i]) =>
                (wpc[i]' = "wake" /\ taken[i]' = lastCx[i])
          /\ (wpc[i] = "lock" /\ registered[i]) => waker[i] = lastCx[i]]_vars

\* C20 witness: a poll registered a waker, a second poll returned Ready, and
\* the worker then invoked the waker: the completed task is scheduled again.
C20_Witness ==
    \E i \in Insts :
        /\ polls[i] = 2
        /\ readyCount[i] = 1
        /\ lastPoll[i].kind = "Ready"
        /\ registered[i]
        /\ wakes[i] = 1
        /\ sched[i]

====
